---- MODULE Spec2Model ----
(***************************************************************************)
(* Verification model of the Ad-Rewrite agent:                             *)
(*   agent/platform_agent.py          sanitize / validate / per-platform   *)
(*                                    chain                                *)
(*   agent/kg_service.py              strategy lookup, cache, style merge  *)
(*   agent/langgraph_orchestration.py fan-out over platforms               *)
(*                                                                         *)
(* A text is a sequence of code points.  An ASCII code point is written as *)
(* the one-character string itself; the emoji U+1F60A is written           *)
(* "U+1F60A" and the grave accent "U+0060".  A Python dict is a function   *)
(* whose DOMAIN is its key set.                                            *)
(***************************************************************************)
EXTENDS Integers, Sequences, FiniteSets, TLC

VARIABLES
    vphase, vtext, vcons, vres,      \* validate_text applied to an input
    mphase, mstrategy, maud, mint, mres,  \* get_recommended_styles applied to a strategy
    sphase, stext, sres, sres2,      \* sanitize_text applied to an input, then to its output
    ephase, etext, eres,             \* extract_entities applied to an input
    kg,        \* the knowledge graph: platform -> its constraint records
    ctx,       \* audience, intent and product category of the request
    cache,     \* lru_cache of _get_platform_data_batch_cached: key -> strategy
    active,    \* the callers that run pipelines
    ch,        \* per caller: the state of its create_platform_chain / invoke
    fan,       \* the run of run_parallel_rewrites: input, results channel, output
    lazy       \* _embeddings, _vectorstore, their locks and the threads calling the getters

vars == <<vphase, vtext, vcons, vres, mphase, mstrategy, maud, mint, mres,
          sphase, stext, sres, sres2, ephase, etext, eres,
          kg, ctx, cache, active, ch, fan, lazy>>

validateVars == <<vphase, vtext, vcons, vres>>
mergeVars == <<mphase, mstrategy, maud, mint, mres>>
pipeVars == <<kg, ctx, cache, active, ch>>
sanitizeVars == <<sphase, stext, sres, sres2>>
entityVars == <<ephase, etext, eres>>
nonPipeVars ==
    <<validateVars, mergeVars, sanitizeVars, entityVars, fan, lazy>>

(***************************************************************************)
(* Bounds                                                                  *)
(***************************************************************************)
MaxPieces == 3
MaxLimit == 4
MaxStyles == 3
MaxTierStyles == 2
MaxThreads == 2

(***************************************************************************)
(* Character classes                                                       *)
(***************************************************************************)
EmojiChar == "U+1F60A"

\* str.split() / str.strip() / str.rstrip() without argument
Whitespace == {" ", "\t", "\n", "\r"}

\* string.punctuation
Punctuation ==
    {"!", "\"", "#", "$", "%", "&", "'", "(", ")", "*", "+", ",", "-", ".",
     "/", ":", ";", "<", "=", ">", "?", "@", "[", "\\", "]", "^", "_", "U+0060",
     "{", "|", "}", "~"}

UpperLetters == <<"A","B","C","D","E","F","G","H","I","J","K","L","M",
                  "N","O","P","Q","R","S","T","U","V","W","X","Y","Z">>
LowerLetters == <<"a","b","c","d","e","f","g","h","i","j","k","l","m",
                  "n","o","p","q","r","s","t","u","v","w","x","y","z">>
Digits == {"0","1","2","3","4","5","6","7","8","9"}

Range(s) == {s[i] : i \in DOMAIN s}

\* \w of the re module (str patterns): letters, digits and underscore
IsWordChar(c) ==
    c \in Range(UpperLetters) \cup Range(LowerLetters) \cup Digits \cup {"_"}

\* EMOJI_REGEX: one code point in U+263A..U+1F645
IsEmoji(c) == c = EmojiChar

\* str.lower() on one code point
LowerChar(c) ==
    IF c \in Range(UpperLetters)
    THEN LowerLetters[CHOOSE i \in DOMAIN UpperLetters : UpperLetters[i] = c]
    ELSE c

Lower(s) == [i \in DOMAIN s |-> LowerChar(s[i])]

(***************************************************************************)
(* Python string operations                                                *)
(***************************************************************************)
\* s[:n] for n >= 0 and for n < 0 (a negative stop counts from the end)
SliceTo(s, n) ==
    LET stop == IF n >= 0
                THEN (IF n < Len(s) THEN n ELSE Len(s))
                ELSE (IF Len(s) + n > 0 THEN Len(s) + n ELSE 0)
    IN SubSeq(s, 1, stop)

RECURSIVE RStripSet(_, _)
RStripSet(s, cs) ==
    IF s # <<>> /\ s[Len(s)] \in cs
    THEN RStripSet(SubSeq(s, 1, Len(s) - 1), cs)
    ELSE s

RECURSIVE LStripSet(_, _)
LStripSet(s, cs) ==
    IF s # <<>> /\ s[1] \in cs THEN LStripSet(Tail(s), cs) ELSE s

StripSet(s, cs) == LStripSet(RStripSet(s, cs), cs)

\* str.split(): maximal runs of non-whitespace, in order
RECURSIVE SplitFrom(_, _)
SplitFrom(s, cur) ==
    IF s = <<>>
    THEN (IF cur = <<>> THEN <<>> ELSE <<cur>>)
    ELSE IF s[1] \in Whitespace
         THEN (IF cur = <<>> THEN SplitFrom(Tail(s), <<>>)
                             ELSE <<cur>> \o SplitFrom(Tail(s), <<>>))
         ELSE SplitFrom(Tail(s), Append(cur, s[1]))

Split(s) == SplitFrom(s, <<>>)

\* " ".join(words)
RECURSIVE JoinSpace(_)
JoinSpace(ws) ==
    IF ws = <<>> THEN <<>>
    ELSE IF Len(ws) = 1 THEN ws[1]
    ELSE ws[1] \o <<" ">> \o JoinSpace(Tail(ws))

\* re.sub(EMOJI_REGEX, "", s)
RECURSIVE RemoveEmoji(_)
RemoveEmoji(s) ==
    IF s = <<>> THEN <<>>
    ELSE IF IsEmoji(s[1]) THEN RemoveEmoji(Tail(s))
    ELSE <<s[1]>> \o RemoveEmoji(Tail(s))

\* EMOJI_REGEX.search(s) is not None
HasEmoji(s) == \E i \in DOMAIN s : IsEmoji(s[i])

(***************************************************************************)
(* Module constants of platform_agent.py                                   *)
(***************************************************************************)
PROFANITY_LIST ==
    {<<"d","a","m","n">>, <<"h","e","l","l">>, <<"s","h","i","t">>}

CTA_VERBS ==
    {<<"b","u","y">>, <<"s","h","o","p">>, <<"o","r","d","e","r">>,
     <<"g","e","t">>, <<"b","o","o","k">>, <<"r","e","s","e","r","v","e">>,
     <<"s","a","v","e">>, <<"c","l","a","i","m">>}

\* the literal suffix of validate_text, ". Get yours today."
CTA_SUFFIX ==
    <<".", " ", "G","e","t", " ", "y","o","u","r","s", " ",
      "t","o","d","a","y", ".">>

\* word w matches at position i of s, ignoring case, with \b on both sides
CtaMatchAt(s, i, w) ==
    /\ i + Len(w) - 1 <= Len(s)
    /\ \A k \in 1..Len(w) : LowerChar(s[i + k - 1]) = w[k]
    /\ (i = 1 \/ ~IsWordChar(s[i - 1]))
    /\ (i + Len(w) - 1 = Len(s) \/ ~IsWordChar(s[i + Len(w)]))

\* CTA_REGEX.search(s) is not None
HasCTA(s) == \E i \in DOMAIN s : \E w \in CTA_VERBS : CtaMatchAt(s, i, w)

\* {w.lower().strip(string.punctuation) for w in s.split()}
CleanTokens(s) ==
    LET ws == Split(s)
    IN {StripSet(Lower(ws[i]), Punctuation) : i \in DOMAIN ws}

HasProfanity(s) == (PROFANITY_LIST \cap CleanTokens(s)) # {}

(***************************************************************************)
(* validate_text                                                           *)
(***************************************************************************)
HasKey(d, k) == k \in DOMAIN d

\* off-by-one variant of the length test (len(text) >= max_length)
LengthExceeded_OffByOne(text, c) ==
    /\ HasKey(c, "max_length_chars")
    /\ c["max_length_chars"] # 0
    /\ Len(text) >= c["max_length_chars"]

\* step 1: max_length = constraints.get("max_length_chars");
\*         if max_length and len(text) > max_length
LengthExceeded(text, c) ==
    /\ HasKey(c, "max_length_chars")
    /\ c["max_length_chars"] # 0
    /\ Len(text) > c["max_length_chars"]

\* the cut without the rstrip()
AfterLength_NoStrip(text, c) ==
    IF LengthExceeded(text, c)
    THEN SliceTo(text, c["max_length_chars"])
    ELSE text

AfterLength(text, c) ==
    IF LengthExceeded(text, c)
    THEN RStripSet(SliceTo(text, c["max_length_chars"]), Whitespace)
    ELSE text

\* the emoji test applied to the text as it was before the truncation
EmojiViolation_BeforeTruncation(text, c) ==
    /\ HasKey(c, "allow_emojis")
    /\ ~c["allow_emojis"]
    /\ HasEmoji(text)

\* step 2: allow_emojis = constraints.get("allow_emojis", True)
EmojiViolation(text, c) ==
    /\ HasKey(c, "allow_emojis")
    /\ ~c["allow_emojis"]
    /\ HasEmoji(AfterLength(text, c))

AfterEmoji(text, c) ==
    IF EmojiViolation(text, c)
    THEN RemoveEmoji(AfterLength(text, c))
    ELSE AfterLength(text, c)

\* the CTA test applied to the text as it was before the emoji removal
CtaMissing_BeforeEmoji(text, c) ==
    /\ HasKey(c, "cta_required")
    /\ c["cta_required"]
    /\ ~HasCTA(AfterLength(text, c))

\* step 3: cta_required = constraints.get("cta_required", False)
CtaMissing(text, c) ==
    /\ HasKey(c, "cta_required")
    /\ c["cta_required"]
    /\ ~HasCTA(AfterEmoji(text, c))

\* the suffix appended without stripping the trailing punctuation
AfterCta_KeepPunctuation(text, c) ==
    IF CtaMissing(text, c)
    THEN AfterEmoji(text, c) \o CTA_SUFFIX
    ELSE AfterEmoji(text, c)

AfterCta(text, c) ==
    IF CtaMissing(text, c)
    THEN RStripSet(AfterEmoji(text, c), Punctuation) \o CTA_SUFFIX
    ELSE AfterEmoji(text, c)

\* the profanity scan applied to the input text
ProfanityDetected_OnInput(text, c) == HasProfanity(text)

\* step 4: profanity re-scan of the final text, no repair
ProfanityDetected(text, c) == HasProfanity(AfterCta(text, c))

ValidateIssues(text, c) ==
    (IF LengthExceeded(text, c) THEN <<"MAX_LENGTH_EXCEEDED">> ELSE <<>>)
    \o (IF EmojiViolation(text, c) THEN <<"EMOJI_NOT_ALLOWED">> ELSE <<>>)
    \o (IF CtaMissing(text, c) THEN <<"CTA_MISSING">> ELSE <<>>)
    \o (IF ProfanityDetected(text, c) THEN <<"PROFANITY_DETECTED">> ELSE <<>>)

validate_text(text, c) ==
    [ok |-> ValidateIssues(text, c) = <<>>,
     issues |-> ValidateIssues(text, c),
     repaired_text |-> AfterCta(text, c)]

(***************************************************************************)
(* Inputs of the validate_text specification                               *)
(***************************************************************************)
Pieces ==
    {<<"g","e","t">>, <<" ","g","e","t">>, <<"g","e">>, <<"t">>, <<"h","e">>,
     <<"l","l">>, <<" ">>, <<".">>, <<EmojiChar>>}

RECURSIVE Concat(_)
Concat(ps) == IF ps = <<>> THEN <<>> ELSE ps[1] \o Concat(Tail(ps))

Texts ==
    {Concat(ps) : ps \in UNION {[1..n -> Pieces] : n \in 0..MaxPieces}}

ConstraintKeys == {"max_length_chars", "allow_emojis", "cta_required"}

\* every dict over a subset of the three keys, with small limits
ConstraintDicts ==
    UNION {
        {[k \in ks |-> IF k = "max_length_chars" THEN n
                       ELSE IF k = "allow_emojis" THEN e ELSE r] :
            n \in 1..MaxLimit, e \in BOOLEAN, r \in BOOLEAN}
        : ks \in SUBSET ConstraintKeys}

NoResult == [ok |-> FALSE, issues |-> <<>>, repaired_text |-> <<>>]

ValidateIdle ==
    /\ vphase = "idle" /\ vtext = <<>> /\ vcons = <<>> /\ vres = NoResult

ValidateInput ==
    /\ vphase = "input"
    /\ vtext \in Texts
    /\ vcons \in ConstraintDicts
    /\ vres = NoResult

CallValidate ==
    /\ vphase = "input"
    /\ vres' = validate_text(vtext, vcons)
    /\ vphase' = "returned"
    /\ UNCHANGED <<vtext, vcons>>
    /\ UNCHANGED <<mergeVars, sanitizeVars, entityVars, pipeVars, fan, lazy>>

(***************************************************************************)
(* get_recommended_styles (kg_service.py)                                  *)
(***************************************************************************)
\* list(dict.fromkeys(s)): the first occurrence of every element, in order
RECURSIVE DedupFrom(_, _)
DedupFrom(s, seen) ==
    IF s = <<>> THEN <<>>
    ELSE IF s[1] \in seen THEN DedupFrom(Tail(s), seen)
    ELSE <<s[1]>> \o DedupFrom(Tail(s), seen \cup {s[1]})

Dedup(s) == DedupFrom(s, {})

\* the tier is appended behind the base list instead of put in front of it
MergeTier_Appended(tier, styles) == Dedup(styles \o tier)

\* styles = list(dict.fromkeys(tier_styles + styles))
MergeTier(tier, styles) == Dedup(tier \o styles)

\* the result cap, styles[:10]
STYLE_CAP == 10

PlatformStylesOf(strategy) ==
    IF HasKey(strategy, "preferred_styles")
    THEN strategy["preferred_styles"] ELSE <<>>

AudienceMerged(strategy, audience) ==
    IF audience /\ HasKey(strategy, "audience_preferred_styles")
    THEN MergeTier(strategy["audience_preferred_styles"],
                   PlatformStylesOf(strategy))
    ELSE PlatformStylesOf(strategy)

IntentMerged(strategy, audience, intent) ==
    IF intent /\ HasKey(strategy, "intent_required_styles")
    THEN MergeTier(strategy["intent_required_styles"],
                   AudienceMerged(strategy, audience))
    ELSE AudienceMerged(strategy, audience)

\* audience / intent: whether the argument is given (truthy)
get_recommended_styles(strategy, audience, intent) ==
    SliceTo(IntentMerged(strategy, audience, intent), STYLE_CAP)

(***************************************************************************)
(* Inputs of the style merge specification: the style lists the data       *)
(* source holds for the platform, the audience and the intent              *)
(***************************************************************************)
PlatformStyleNames == {"a", "b", "c"}
AudienceStyleNames == {"a", "b", "d"}
IntentStyleNames == {"b", "d", "e"}

\* further platform styles, enough to pass the cap
MorePlatformStyles == <<"p1", "p2", "p3", "p4", "p5", "p6", "p7", "p8", "p9">>

SeqsUpTo(S, n) == UNION {[1..k -> S] : k \in 0..n}

PlatformLists ==
    {short \o tail : short \in SeqsUpTo(PlatformStyleNames, MaxStyles),
                     tail \in {<<>>, MorePlatformStyles}}
AudienceLists == SeqsUpTo(AudienceStyleNames, MaxTierStyles)
IntentLists == SeqsUpTo(IntentStyleNames, MaxTierStyles)

\* the strategy dict: the audience / intent keys exist when that argument
\* was given to the lookup
StrategyOf(p, a, i, audience, intent) ==
    [k \in {"preferred_styles"}
           \cup (IF audience THEN {"audience_preferred_styles"} ELSE {})
           \cup (IF intent THEN {"intent_required_styles"} ELSE {})
       |-> IF k = "preferred_styles" THEN p
           ELSE IF k = "audience_preferred_styles" THEN a ELSE i]

MergeIdle ==
    /\ mphase = "idle" /\ mstrategy = <<>> /\ maud = FALSE /\ mint = FALSE
    /\ mres = <<>>

MergeInput ==
    /\ mphase = "input"
    /\ maud \in BOOLEAN
    /\ mint \in BOOLEAN
    /\ mstrategy \in
         {StrategyOf(p, a, i, maud, mint) :
            p \in PlatformLists,
            a \in (IF maud THEN AudienceLists ELSE {<<>>}),
            i \in (IF mint THEN IntentLists ELSE {<<>>})}
    /\ mres = <<>>

CallRecommendedStyles ==
    /\ mphase = "input"
    /\ mres' = get_recommended_styles(mstrategy, maud, mint)
    /\ mphase' = "returned"
    /\ UNCHANGED <<mstrategy, maud, mint>>
    /\ UNCHANGED <<validateVars, sanitizeVars, entityVars, pipeVars, fan, lazy>>

(***************************************************************************)
(* sanitize_text                                                           *)
(***************************************************************************)
\* clean = word.strip(string.punctuation).lower(); clean in PROFANITY_LIST
IsProfaneWord(word) == Lower(StripSet(word, Punctuation)) \in PROFANITY_LIST

Max(a, b) == IF a >= b THEN a ELSE b
Min(a, b) == IF a <= b THEN a ELSE b

\* the word is left as it is
MaskWord_Unmasked(word) == word

\* one asterisk too few
MaskWord_OneShort(word) ==
    <<word[1]>> \o [i \in 1..Max(Len(word) - 2, 1) |-> "*"]

\* word[0] + "*" * max(len(word) - 1, 1)
MaskWord(word) ==
    <<word[1]>> \o [i \in 1..Max(Len(word) - 1, 1) |-> "*"]

SanitizeWords(words) ==
    [i \in DOMAIN words |->
        IF IsProfaneWord(words[i]) THEN MaskWord(words[i]) ELSE words[i]]

\* the issue code recorded once however many words are masked
sanitize_text_OneIssue(text) ==
    LET words == Split(StripSet(text, Whitespace))
        n == IF \E i \in DOMAIN words : IsProfaneWord(words[i]) THEN 1 ELSE 0
    IN [text |-> JoinSpace(SanitizeWords(words)),
        issues |-> [i \in 1..n |-> "PROFANITY_MASKED"]]

\* one PROFANITY_MASKED per masked word, in the order of the loop
sanitize_text(text) ==
    LET words == Split(StripSet(text, Whitespace))
        n == Cardinality({i \in DOMAIN words : IsProfaneWord(words[i])})
    IN [text |-> JoinSpace(SanitizeWords(words)),
        issues |-> [i \in 1..n |-> "PROFANITY_MASKED"]]

\* sanitize_text applied to an input, and applied again to its own output
\* "hell", "DAMN", "ok": a word; tab, space, "!", U+0022: what may surround it
SanitizePieces ==
    {<<"h","e","l","l">>, <<"D","A","M","N">>, <<"o","k">>,
     <<" ">>, <<"\t">>, <<"!">>, <<"\"">>}

SanitizeTexts ==
    {Concat(ps) : ps \in UNION {[1..n -> SanitizePieces] : n \in 0..MaxPieces}}

NoSanitized == [text |-> <<>>, issues |-> <<>>]

SanitizeIdle ==
    /\ sphase = "idle" /\ stext = <<>>
    /\ sres = NoSanitized /\ sres2 = NoSanitized

SanitizeInput ==
    /\ sphase = "input"
    /\ stext \in SanitizeTexts
    /\ sres = NoSanitized /\ sres2 = NoSanitized

\* sanitized, issues = sanitize_text(text)
CallSanitize ==
    /\ sphase = "input"
    /\ sres' = sanitize_text(stext)
    /\ sphase' = "sanitized"
    /\ UNCHANGED <<stext, sres2>>
    /\ UNCHANGED <<validateVars, mergeVars, entityVars, pipeVars, fan, lazy>>

\* sanitize_text(sanitized)
CallSanitizeAgain ==
    /\ sphase = "sanitized"
    /\ sres2' = sanitize_text(sres.text)
    /\ sphase' = "resanitized"
    /\ UNCHANGED <<stext, sres>>
    /\ UNCHANGED <<validateVars, mergeVars, entityVars, pipeVars, fan, lazy>>

(***************************************************************************)
(* extract_entities (platform_agent.py)                                    *)
(***************************************************************************)
\* an optional text is a set: {} is None, {t} is the text t
NoText == {}

NoEntities == [cta |-> NoText, discount |-> NoText, product |-> NoText]

EntityIdle == ephase = "idle" /\ etext = <<>> /\ eres = NoEntities

\* CTA_REGEX.search(text).group(0): the scan tries each position from the
\* left and stops at the first one where an alternative matches
RECURSIVE CtaSearchFrom(_, _)
CtaSearchFrom(s, i) ==
    IF i > Len(s) THEN NoText
    ELSE IF \E w \in CTA_VERBS : CtaMatchAt(s, i, w)
    THEN LET w == CHOOSE v \in CTA_VERBS : CtaMatchAt(s, i, v)
         IN {SubSeq(s, i, i + Len(w) - 1)}
    ELSE CtaSearchFrom(s, i + 1)

HALF_OFF == <<"h","a","l","f"," ","o","f","f">>
BOGO == <<"b","o","g","o">>

\* the literal w at position i of s, ignoring case
LiteralAt(s, i, w) ==
    /\ i + Len(w) - 1 <= Len(s)
    /\ \A k \in 1..Len(w) : LowerChar(s[i + k - 1]) = w[k]

\* length of what (\d{1,2}%|half off|bogo) matches at position i, 0 if
\* nothing: \d{1,2} is greedy and gives a digit back only if that helps
DiscountLenAt(s, i) ==
    IF i + 2 <= Len(s) /\ s[i] \in Digits /\ s[i + 1] \in Digits
       /\ s[i + 2] = "%" THEN 3
    ELSE IF i + 1 <= Len(s) /\ s[i] \in Digits /\ s[i + 1] = "%" THEN 2
    ELSE IF LiteralAt(s, i, HALF_OFF) THEN Len(HALF_OFF)
    ELSE IF LiteralAt(s, i, BOGO) THEN Len(BOGO)
    ELSE 0

\* the match accepted whatever precedes it
DiscountMatchAt_NoLookbehind(s, i) ==
    /\ DiscountLenAt(s, i) > 0
    /\ (i + DiscountLenAt(s, i) > Len(s)
        \/ ~IsWordChar(s[i + DiscountLenAt(s, i)]))

\* (?<!\w) before and (?!\w) after the match
DiscountMatchAt(s, i) ==
    /\ DiscountLenAt(s, i) > 0
    /\ (i = 1 \/ ~IsWordChar(s[i - 1]))
    /\ (i + DiscountLenAt(s, i) > Len(s)
        \/ ~IsWordChar(s[i + DiscountLenAt(s, i)]))

\* DISCOUNT_REGEX.search(text).group(0)
RECURSIVE DiscountSearchFrom(_, _)
DiscountSearchFrom(s, i) ==
    IF i > Len(s) THEN NoText
    ELSE IF DiscountMatchAt(s, i)
    THEN {SubSeq(s, i, i + DiscountLenAt(s, i) - 1)}
    ELSE DiscountSearchFrom(s, i + 1)

\* [A-Za-z ]
IsProductChar(c) ==
    c \in Range(UpperLetters) \cup Range(LowerLetters) \cup {" "}

\* \bfor: PRODUCT_REGEX is compiled without re.IGNORECASE
ForAt(s, i) ==
    /\ i + 2 <= Len(s)
    /\ s[i] = "f" /\ s[i + 1] = "o" /\ s[i + 2] = "r"
    /\ (i = 1 \/ ~IsWordChar(s[i - 1]))

\* the first position from j on that holds no whitespace (Len(s) + 1 if none)
RECURSIVE WhitespaceEnd(_, _)
WhitespaceEnd(s, j) ==
    IF j > Len(s) \/ s[j] \notin Whitespace THEN j
    ELSE WhitespaceEnd(s, j + 1)

\* the last position of the run of [A-Za-z ] that starts at p
RECURSIVE ProductRunEnd(_, _)
ProductRunEnd(s, p) ==
    IF p + 1 <= Len(s) /\ IsProductChar(s[p + 1])
    THEN ProductRunEnd(s, p + 1) ELSE p

\* where group 1 starts when `for` is at i, 0 if \s+([A-Za-z ]+) fails:
\* \s+ takes the whole whitespace run; if no letter follows, it gives
\* characters back until the group can start on a space
ProductGroupStart(s, i) ==
    LET j == i + 3
        k == WhitespaceEnd(s, j)
        spaces == {p \in (j + 1)..(k - 1) : s[p] = " "}
    IN IF k = j THEN 0
       ELSE IF k <= Len(s) /\ IsProductChar(s[k]) THEN k
       ELSE IF spaces # {} THEN CHOOSE p \in spaces : \A q \in spaces : q <= p
       ELSE 0

\* PRODUCT_REGEX.search(text).group(1).strip()
RECURSIVE ProductSearchFrom(_, _)
ProductSearchFrom(s, i) ==
    IF i > Len(s) THEN NoText
    ELSE IF ForAt(s, i) /\ ProductGroupStart(s, i) > 0
    THEN LET p == ProductGroupStart(s, i)
         IN {StripSet(SubSeq(s, p, ProductRunEnd(s, p)), Whitespace)}
    ELSE ProductSearchFrom(s, i + 1)

extract_entities(text) ==
    [cta |-> CtaSearchFrom(text, 1),
     discount |-> DiscountSearchFrom(text, 1),
     product |-> ProductSearchFrom(text, 1)]

\* "Buy", "get", "50%", "5%", "Half off", "bogo", "for", "FOR", "shoes",
\* " ", tab, ".", "1"
EntityPieces ==
    {<<"B","u","y">>, <<"g","e","t">>, <<"5","0","%">>, <<"5","%">>,
     <<"H","a","l","f"," ","o","f","f">>, <<"b","o","g","o">>,
     <<"f","o","r">>, <<"F","O","R">>, <<"s","h","o","e","s">>,
     <<" ">>, <<"\t">>, <<".">>, <<"1">>}

EntityTexts ==
    {Concat(ps) : ps \in UNION {[1..n -> EntityPieces] : n \in 0..MaxPieces}}

EntityInput ==
    /\ ephase = "input"
    /\ etext \in EntityTexts
    /\ eres = NoEntities

\* entities = extract_entities(text)
CallExtractEntities ==
    /\ ephase = "input"
    /\ eres' = extract_entities(etext)
    /\ ephase' = "returned"
    /\ UNCHANGED etext
    /\ UNCHANGED <<validateVars, mergeVars, sanitizeVars, pipeVars, fan, lazy>>

(***************************************************************************)
(* The knowledge graph and the strategy lookup (kg_service.py)             *)
(***************************************************************************)
\* Python's None where a string is expected
NoneStr == "<None>"

\* Optional[int]: {} is None, {n} is the integer n
NoInt == {}
IntOf(o) == CHOOSE n \in o : TRUE
\* truth value of an Optional[int]: None and 0 are false
TruthyInt(o) == o # {} /\ IntOf(o) # 0
\* truth value of an Optional[str]: None and "" are false
TruthyStr(x) == x # NoneStr /\ x # ""

\* platforms with a Platform node (populate_kg.py creates twitter without
\* constraint records)
KgPlatforms == {"instagram", "twitter"}

\* a Platform node that no relationship points from: no styles, creative
\* types or audiences
BarePlatform == "threads"

\* str.lower() on the names in use
NameLower(name) ==
    IF name = "Instagram" THEN "instagram"
    ELSE IF name = "GEN-Z" THEN "gen-z" ELSE name

LowerOrNone(x) == IF TruthyStr(x) THEN NameLower(x) ELSE NoneStr

get_default_constraints(platform) ==
    IF NameLower(platform) = "twitter"
    THEN [max_length_chars |-> 280, allow_emojis |-> TRUE,
          cta_required |-> FALSE]
    ELSE IF NameLower(platform) = "youtube"
    THEN [max_length_chars |-> 5000, allow_emojis |-> TRUE,
          cta_required |-> TRUE]
    ELSE IF NameLower(platform) = "pinterest"
    THEN [max_length_chars |-> 500, allow_emojis |-> TRUE,
          cta_required |-> FALSE]
    ELSE [max_length_chars |-> 2000, allow_emojis |-> TRUE,
          cta_required |-> FALSE]

\* the constraint records the graph may hold for instagram: all three, some
\* of them, or none
KgConstraintOptions ==
    {[max_length_chars |-> MaxLimit, allow_emojis |-> FALSE,
      cta_required |-> TRUE],
     [max_length_chars |-> MaxLimit, allow_emojis |-> TRUE,
      cta_required |-> FALSE],
     [k \in {"allow_emojis"} |-> FALSE],
     [max_length_chars |-> MaxLimit, cta_required |-> TRUE],
     [k \in {} |-> FALSE]}

\* style data of the graph, already ordered by score
KgPlatformStyles(platform) ==
    IF platform = "instagram" THEN <<"visual", "fun">>
    ELSE IF platform = "twitter" THEN <<"conversational", "bold">>
    ELSE <<>>
KgAudienceStyles(audience) ==
    IF audience = "gen-z" THEN <<"energetic", "fun">> ELSE <<>>
KgIntentStyles(intent) ==
    IF intent = "purchase" THEN <<"urgent", "energetic">> ELSE <<>>
KgCreativeTypes(platform) ==
    IF platform = "instagram" THEN <<"reel", "story">>
    ELSE IF platform = "twitter" THEN <<"thread">>
    ELSE <<>>
KgAudiences(platform) ==
    IF platform = "instagram" THEN <<"gen-z", "millennials">>
    ELSE IF platform = "twitter" THEN <<"gen-z">>
    ELSE <<>>

StrategyKeys(audience, intent, category) ==
    {"constraints", "preferred_styles", "recommended_creative_types",
     "target_audiences"}
    \cup (IF audience # NoneStr /\ KgAudienceStyles(audience) # <<>>
          THEN {"audience_preferred_styles"} ELSE {})
    \cup (IF intent # NoneStr /\ KgIntentStyles(intent) # <<>>
          THEN {"intent_required_styles"} ELSE {})
    \cup (IF category # NoneStr THEN {"category_suitability_score"} ELSE {})

\* get_platform_data_batch on already lower-cased arguments; {} when the
\* query has no row (no such platform)
get_platform_data_batch(graph, platform, audience, intent, category) ==
    IF platform \notin DOMAIN graph
    THEN [k \in {} |-> FALSE]
    ELSE [k \in StrategyKeys(audience, intent, category) |->
            CASE k = "constraints" ->
                   IF DOMAIN graph[platform] # {} THEN graph[platform]
                   ELSE get_default_constraints(platform)
              [] k = "preferred_styles" -> KgPlatformStyles(platform)
              [] k = "recommended_creative_types" -> KgCreativeTypes(platform)
              [] k = "target_audiences" -> KgAudiences(platform)
              [] k = "audience_preferred_styles" ->
                   SliceTo(KgAudienceStyles(audience), 5)
              [] k = "intent_required_styles" ->
                   SliceTo(KgIntentStyles(intent), 5)
              [] OTHER -> 1]

\* the key of get_platform_data_batch_cached
CacheKey(platform, audience, intent, category) ==
    <<NameLower(platform), LowerOrNone(audience), LowerOrNone(intent),
      LowerOrNone(category)>>

\* the cache after a lookup of key: a miss computes and stores
CacheAfterLookup(c, graph, key) ==
    IF key \in DOMAIN c THEN c
    ELSE [k \in DOMAIN c \cup {key} |->
            IF k = key
            THEN get_platform_data_batch(graph, key[1], key[2], key[3], key[4])
            ELSE c[k]]

(***************************************************************************)
(* create_platform_chain and the chain it returns (platform_agent.py)      *)
(***************************************************************************)
Callers == {1, 2}

PlatformArgs == {"instagram", "Instagram", "twitter", "threads", "myspace"}
ToneArgs == {NoneStr, "", "bold"}
LengthPrefArgs == {NoInt, {-1}, {0}, {2}}

\* (audience, user_intent, product_category) of a request
Contexts ==
    {<<NoneStr, NoneStr, NoneStr>>,
     <<"GEN-Z", "purchase", NoneStr>>,
     <<"gen-z", NoneStr, "tech">>}

\* "hell get", "get it.", "Damn! hell", ""
RawTexts ==
    {<<"h","e","l","l"," ","g","e","t">>,
     <<"g","e","t"," "," ","i","t",".">>,
     <<"D","a","m","n","!"," ","h","e","l","l">>,
     <<>>}

\* "buy", " he<emoji>ll. ", "nice deal", ""
LlmTexts ==
    {<<"b","u","y">>,
     <<" ","h","e",EmojiChar,"l","l","."," ">>,
     <<"n","i","c","e"," ","d","e","a","l">>,
     <<>>}

FallbackExplanation == "Model returned non-JSON, raw text forwarded."

\* what the LLM may answer:
\*   not_json          text that json.loads rejects
\*   object            a JSON object whose rewritten_text is a string
\*   object_no_text    a JSON object without rewritten_text
\*   object_null_text  a JSON object whose rewritten_text is null
\*   json_scalar       valid JSON that is no object (string, number, array)
\* text: the raw text (not_json, json_scalar) or the rewritten_text (object)
LlmResponses ==
    {[kind |-> "not_json", text |-> t, explanation |-> ""] : t \in LlmTexts}
    \cup
    {[kind |-> "object", text |-> t, explanation |-> "why"] : t \in LlmTexts}
    \cup
    {[kind |-> "object", text |-> <<"b","u","y">>, explanation |-> ""]}
    \cup
    {[kind |-> k, text |-> <<>>, explanation |-> "why"] :
        k \in {"object_no_text", "object_null_text", "json_scalar"}}

\* the text a caller of rewrite_for_platform passes to chain.invoke
InputTexts == RawTexts

NoResponse == [kind |-> "none", text |-> <<>>, explanation |-> ""]

NoRecord ==
    [platform |-> "", rewritten_text |-> <<>>, explanation |-> "",
     examples_used |-> <<>>,
     validation |-> [ok |-> FALSE, issues |-> <<>>],
     entities |-> NoEntities]

EmptyDict == [k \in {} |-> FALSE]

IdleChain ==
    [pc |-> "idle", platform |-> "", tone |-> NoneStr, length_pref |-> NoInt,
     key |-> <<>>, aliased |-> FALSE, own_constraints |-> EmptyDict,
     recommended_styles |-> <<>>, final_tone |-> "",
     stages |-> <<>>, text |-> <<>>,
     sanitized_text |-> <<>>, sanitize_issues |-> <<>>,
     entities_text |-> <<>>, entities |-> NoEntities,
     query |-> <<>>, input_text |-> <<>>,
     examples |-> <<>>, prompt_constraints |-> EmptyDict,
     response |-> NoResponse,
     llm_explanation |-> "", rewritten_text |-> <<>>,
     validated_with |-> EmptyDict,
     result |-> NoRecord, err |-> ""]

\* the dict the name `constraints` of caller p refers to: the dict stored in
\* the cache entry, or a dict of its own
ConstraintsOf(p) ==
    IF ch[p].aliased THEN cache[ch[p].key]["constraints"]
    ELSE ch[p].own_constraints

Step(p, stage) == Append(ch[p].stages, stage)

Fail(p, stage, error) ==
    ch' = [ch EXCEPT ![p].pc = "failed", ![p].err = error,
                     ![p].stages = Step(p, stage)]

\* a caller enters create_platform_chain
CreateChain(p) ==
    /\ p \in active
    /\ ch[p].pc = "idle"
    /\ \E platform \in PlatformArgs, tone \in ToneArgs,
          length_pref \in LengthPrefArgs :
         ch' = [ch EXCEPT ![p] =
                  [IdleChain EXCEPT !.pc = "platform_exists",
                                    !.platform = platform,
                                    !.tone = tone,
                                    !.length_pref = length_pref]]
    /\ UNCHANGED <<kg, ctx, cache, active, nonPipeVars>>

\* the platform is always taken to exist
platform_exists_Always(graph, platform) == TRUE

\* platform_exists: count(p) > 0 for the lower-cased name
platform_exists(graph, platform) == NameLower(platform) \in DOMAIN graph

\* if not platform_exists(platform): raise ValueError
CheckPlatform(p) ==
    /\ ch[p].pc = "platform_exists"
    /\ IF platform_exists(kg, ch[p].platform)
       THEN ch' = [ch EXCEPT ![p].pc = "strategy",
                             ![p].stages = Step(p, "platform_exists")]
       ELSE Fail(p, "platform_exists", "ValueError")
    /\ UNCHANGED <<kg, ctx, cache, active, nonPipeVars>>

\* strategy = get_platform_data_batch_cached(...);
\* constraints = strategy.get("constraints", {}) or get_default_constraints(platform)
LookupStrategy(p) ==
    /\ ch[p].pc = "strategy"
    /\ LET key == CacheKey(ch[p].platform, ctx[1], ctx[2], ctx[3])
           after == CacheAfterLookup(cache, kg, key)
           strategy == after[key]
           cached == /\ HasKey(strategy, "constraints")
                     /\ DOMAIN strategy["constraints"] # {}
       IN /\ cache' = after
          /\ ch' = [ch EXCEPT
                      ![p].pc = "length_pref",
                      ![p].key = key,
                      ![p].aliased = cached,
                      ![p].own_constraints =
                          IF cached THEN EmptyDict
                          ELSE get_default_constraints(ch[p].platform),
                      ![p].stages = Step(p, "strategy")]
    /\ UNCHANGED <<kg, ctx, active, nonPipeVars>>

\* the cache after `constraints["max_length_chars"] = min(...)` on a dict
\* that is the cached one
WithLengthPref(c, p) ==
    IF /\ TruthyInt(ch[p].length_pref)
       /\ HasKey(ConstraintsOf(p), "max_length_chars")
       /\ ch[p].aliased
    THEN [c EXCEPT ![ch[p].key]["constraints"]["max_length_chars"] =
             Min(IntOf(ch[p].length_pref), @)]
    ELSE c

\* if length_pref and "max_length_chars" in constraints: ...
ApplyLengthPref(p) ==
    /\ ch[p].pc = "length_pref"
    /\ cache' = WithLengthPref(cache, p)
    /\ ch' = [ch EXCEPT
                ![p].pc = "styles",
                ![p].own_constraints =
                    IF /\ TruthyInt(ch[p].length_pref)
                       /\ HasKey(ConstraintsOf(p), "max_length_chars")
                       /\ ~ch[p].aliased
                    THEN [@ EXCEPT !["max_length_chars"] =
                            Min(IntOf(ch[p].length_pref), @)]
                    ELSE @,
                ![p].stages = Step(p, "length_pref")]
    /\ UNCHANGED <<kg, ctx, active, nonPipeVars>>

\* the recommended style taken even when the caller gave a tone
FinalTone_OverrideLast(tone, styles, preferred) ==
    IF styles # <<>> THEN styles[1]
    ELSE IF preferred # <<>> THEN preferred[1]
    ELSE IF TruthyStr(tone) THEN tone
    ELSE "casual"

\* if tone: ... elif recommended_styles: ... else: preferred_styles[0] if
\* preferred_styles else "casual"
FinalTone(tone, styles, preferred) ==
    IF TruthyStr(tone) THEN tone
    ELSE IF styles # <<>> THEN styles[1]
    ELSE IF preferred # <<>> THEN preferred[1]
    ELSE "casual"

\* recommended_styles = get_recommended_styles(platform, audience, intent)
\* and the choice of the tone
ChooseTone(p) ==
    /\ ch[p].pc = "styles"
    /\ LET key == CacheKey(ch[p].platform, ctx[1], ctx[2], NoneStr)
           after == CacheAfterLookup(cache, kg, key)
           styles == get_recommended_styles(after[key], TruthyStr(ctx[1]),
                                            TruthyStr(ctx[2]))
           strategy == after[ch[p].key]
           preferred == IF HasKey(strategy, "preferred_styles")
                        THEN strategy["preferred_styles"] ELSE <<>>
       IN /\ cache' = after
          /\ ch' = [ch EXCEPT
                      ![p].pc = "get_llm",
                      ![p].recommended_styles = styles,
                      ![p].final_tone =
                          FinalTone(ch[p].tone, styles, preferred),
                      ![p].stages = Step(p, "styles")]
    /\ UNCHANGED <<kg, ctx, active, nonPipeVars>>

\* llm = get_llm(); the chain is returned
GetLlm(p) ==
    /\ ch[p].pc = "get_llm"
    /\ ch' = [ch EXCEPT ![p].pc = "chain", ![p].stages = Step(p, "get_llm")]
    /\ UNCHANGED <<kg, ctx, cache, active, nonPipeVars>>

\* chain.invoke({"text": text}): prepare_context up to sanitize_text
Sanitize(p) ==
    /\ ch[p].pc = "chain"
    /\ \E text \in (IF p \in active THEN InputTexts ELSE {fan.text}) :
         ch' = [ch EXCEPT
                  ![p].pc = "entities",
                  ![p].text = text,
                  ![p].sanitized_text = sanitize_text(text).text,
                  ![p].sanitize_issues = sanitize_text(text).issues,
                  ![p].stages = Step(p, "sanitize")]
    /\ UNCHANGED <<kg, ctx, cache, active, nonPipeVars>>

\* the text prepare_context passes to extract_entities
EntitiesArgument(p) == ch[p].sanitized_text

\* entities = extract_entities(sanitized_text)
ExtractEntities(p) ==
    /\ ch[p].pc = "entities"
    /\ ch' = [ch EXCEPT
                ![p].pc = "retrieve",
                ![p].entities_text = EntitiesArgument(p),
                ![p].entities = extract_entities(EntitiesArgument(p)),
                ![p].stages = Step(p, "entities")]
    /\ UNCHANGED <<kg, ctx, cache, active, nonPipeVars>>

\* the query prepare_context passes to retrieve_examples
RetrievalQuery(p) == ch[p].sanitized_text

\* the raw text put in the prompt
PromptInputText_Raw(p) == ch[p].text

\* "input_text": sanitized_text in the dict prepare_context returns
PromptInputText(p) == ch[p].sanitized_text

\* examples = retrieve_examples(sanitized_text, platform, k=top_k) and the
\* rest of prepare_context; json.dumps(constraints) copies the dict as it is
\* now
Retrieve(p) ==
    /\ ch[p].pc = "retrieve"
    /\ ch' = [ch EXCEPT
                ![p].pc = "llm",
                ![p].query = RetrievalQuery(p),
                ![p].input_text = PromptInputText(p),
                ![p].examples = <<"example">>,
                ![p].prompt_constraints = ConstraintsOf(p),
                ![p].stages = Step(p, "retrieve")]
    /\ UNCHANGED <<kg, ctx, cache, active, nonPipeVars>>

\* the vector store is missing or the search fails
RetrieveRaises(p) ==
    /\ ch[p].pc = "retrieve"
    /\ Fail(p, "retrieve", "RetrievalError")
    /\ UNCHANGED <<kg, ctx, cache, active, nonPipeVars>>

\* RunnablePassthrough.assign(llm_result=REWRITE_PROMPT | llm)
InvokeLlm(p) ==
    /\ ch[p].pc = "llm"
    /\ \E r \in LlmResponses :
         ch' = [ch EXCEPT ![p].pc = "parse", ![p].response = r,
                          ![p].stages = Step(p, "llm")]
    /\ UNCHANGED <<kg, ctx, cache, active, nonPipeVars>>

\* the error of the LLM call is caught and the chain goes on without a
\* response
LlmRaises_Swallowed(p) ==
    /\ ch[p].pc = "llm"
    /\ ch' = [ch EXCEPT ![p].pc = "parse", ![p].err = "LLMError",
                        ![p].stages = Step(p, "llm")]
    /\ UNCHANGED <<kg, ctx, cache, active, nonPipeVars>>

\* the LLM call raises: nothing in the chain catches it
LlmRaises(p) ==
    /\ ch[p].pc = "llm"
    /\ Fail(p, "llm", "LLMError")
    /\ UNCHANGED <<kg, ctx, cache, active, nonPipeVars>>

\* json.loads succeeds and yields something without .get, or the
\* rewritten_text it yields has no .strip: AttributeError
ParseRaises(r) == r.kind \in {"object_null_text", "json_scalar"}

\* llm_output["rewritten_text"] where the key exists and is a string
LlmOutputText(r) ==
    IF r.kind = "not_json" THEN StripSet(r.text, Whitespace)
    ELSE IF r.kind = "object" THEN r.text
    ELSE <<>>

\* llm_output.get("rewritten_text", "").strip() or input_dict.get("input_text", "")
ParsedText(r, input_text) ==
    IF StripSet(LlmOutputText(r), Whitespace) # <<>>
    THEN StripSet(LlmOutputText(r), Whitespace)
    ELSE input_text

\* llm_output.get("explanation", "")
ParsedExplanation(r) ==
    IF r.kind = "not_json" THEN FallbackExplanation ELSE r.explanation

\* a response without usable text makes the chain ask the LLM again
Parse_AsksAgain(p) ==
    /\ ch[p].pc = "parse"
    /\ IF ParseRaises(ch[p].response)
       THEN Fail(p, "parse", "AttributeError")
       ELSE IF StripSet(LlmOutputText(ch[p].response), Whitespace) = <<>>
            THEN ch' = [ch EXCEPT ![p].pc = "llm",
                                  ![p].stages = Step(p, "parse")]
            ELSE ch' = [ch EXCEPT
                          ![p].pc = "validate",
                          ![p].rewritten_text =
                              ParsedText(ch[p].response, ch[p].input_text),
                          ![p].llm_explanation =
                              ParsedExplanation(ch[p].response),
                          ![p].stages = Step(p, "parse")]
    /\ UNCHANGED <<kg, ctx, cache, active, nonPipeVars>>

\* parse_llm_response
Parse(p) ==
    /\ ch[p].pc = "parse"
    /\ IF ParseRaises(ch[p].response)
       THEN Fail(p, "parse", "AttributeError")
       ELSE ch' = [ch EXCEPT
                     ![p].pc = "validate",
                     ![p].rewritten_text =
                         ParsedText(ch[p].response, ch[p].input_text),
                     ![p].llm_explanation = ParsedExplanation(ch[p].response),
                     ![p].stages = Step(p, "parse")]
    /\ UNCHANGED <<kg, ctx, cache, active, nonPipeVars>>

\* the sanitize issues put in front of the issues of validate_text
FinalRecord_SanitizeFirst(p) ==
    LET v == validate_text(ch[p].rewritten_text, ConstraintsOf(p))
    IN [platform |-> ch[p].platform,
        rewritten_text |-> v.repaired_text,
        explanation |-> ch[p].llm_explanation,
        examples_used |-> ch[p].examples,
        validation |-> [ok |-> v.ok,
                        issues |-> ch[p].sanitize_issues \o v.issues],
        entities |-> ch[p].entities]

\* validate_and_finalize: validate_text on the dict `constraints` refers to,
\* then the sanitize issues are appended to validation["issues"]
FinalRecord(p) ==
    LET v == validate_text(ch[p].rewritten_text, ConstraintsOf(p))
    IN [platform |-> ch[p].platform,
        rewritten_text |-> v.repaired_text,
        explanation |-> ch[p].llm_explanation,
        examples_used |-> ch[p].examples,
        validation |-> [ok |-> v.ok,
                        issues |-> v.issues \o ch[p].sanitize_issues],
        entities |-> ch[p].entities]

ValidateAndFinalize(p) ==
    /\ ch[p].pc = "validate"
    /\ ch' = [ch EXCEPT
                ![p].pc = "done",
                ![p].validated_with = ConstraintsOf(p),
                ![p].result = FinalRecord(p),
                ![p].stages = Step(p, "validate")]
    /\ UNCHANGED <<kg, ctx, cache, active, nonPipeVars>>

\* rewrite_for_platform returns the record or raises; the caller may call
\* again
Return(p) ==
    /\ p \in active
    /\ ch[p].pc \in {"done", "failed"}
    /\ ch' = [ch EXCEPT ![p] = IdleChain]
    /\ UNCHANGED <<kg, ctx, cache, active, nonPipeVars>>

ChainStep(p) ==
    \/ CheckPlatform(p)
    \/ LookupStrategy(p)
    \/ ApplyLengthPref(p)
    \/ ChooseTone(p)
    \/ GetLlm(p)
    \/ Sanitize(p)
    \/ ExtractEntities(p)
    \/ Retrieve(p)
    \/ RetrieveRaises(p)
    \/ InvokeLlm(p)
    \/ LlmRaises(p)
    \/ Parse(p)
    \/ ValidateAndFinalize(p)

PipeIdle ==
    /\ kg = [n \in KgPlatforms |-> EmptyDict]
    /\ ctx = <<NoneStr, NoneStr, NoneStr>>
    /\ cache = EmptyDict
    /\ active = {}
    /\ ch = [p \in Callers |-> IdleChain]

\* the same caller on a graph that also holds the platform without
\* relationships
BareGraphStart ==
    /\ kg = [n \in KgPlatforms \cup {BarePlatform} |->
               IF n = "instagram"
               THEN [max_length_chars |-> MaxLimit, allow_emojis |-> FALSE,
                     cta_required |-> TRUE]
               ELSE EmptyDict]
    /\ ctx \in Contexts
    /\ cache = EmptyDict
    /\ active = {1}
    /\ ch = [p \in Callers |-> IdleChain]

\* one caller of rewrite_for_platform, calling again and again
PipeStart ==
    /\ kg \in {[n \in KgPlatforms |->
                  IF n = "instagram" THEN o ELSE EmptyDict] :
                o \in KgConstraintOptions}
    /\ ctx \in Contexts
    /\ cache = EmptyDict
    /\ active = {1}
    /\ ch = [p \in Callers |-> IdleChain]

(***************************************************************************)
(* agent/langgraph_orchestration.py: the fan-out over the target platforms *)
(*                                                                         *)
(* An element of the results list is written [kind, record]: kind "dict"   *)
(* for a result record, "list" for a Python list (here always the empty    *)
(* one), "None" for None.  An optional list is a set: {} is None, {l} is   *)
(* the list l.                                                             *)
(***************************************************************************)
NoList == {}

ListOf(a) == CHOOSE l \in a : TRUE

NoneItem == [kind |-> "None", record |-> NoRecord]

EmptyListItem == [kind |-> "list", record |-> NoRecord]

DictItem(r) == [kind |-> "dict", record |-> r]

\* _results_reducer(a, b): a None -> [], b None -> a, else a + [b]
results_reducer(a, b) ==
    LET a1 == IF a = NoList THEN <<>> ELSE ListOf(a)
    IN IF b = NoneItem THEN a1 ELSE a1 \o <<b>>

\* target_platforms: the node names run_<p> are distinct
TargetLists ==
    {<<x>> : x \in PlatformArgs}
    \cup {t \in PlatformArgs \X PlatformArgs : t[1] # t[2]}

\* length_map: per-platform length preferences
LengthMaps == {EmptyDict, [x \in {"instagram"} |-> 2]}

\* length_map.get(platform)
MapGet(m, k) == IF k \in DOMAIN m THEN {m[k]} ELSE NoInt

FanTexts ==
    {<<"h","e","l","l"," ","g","e","t">>, <<"g","e","t"," "," ","i","t",".">>}

NoFan ==
    [phase |-> "idle", text |-> <<>>, targets |-> <<>>,
     length_map |-> EmptyDict, results |-> <<>>, out |-> <<>>, err |-> ""]

FanIdle == fan = NoFan

\* run_parallel_rewrites is called: one node per target platform is added
\* to the graph
FanInput ==
    /\ kg \in {[n \in KgPlatforms |->
                  IF n = "instagram" THEN o ELSE EmptyDict] :
                o \in KgConstraintOptions}
    /\ ctx = <<NoneStr, NoneStr, NoneStr>>
    /\ cache = EmptyDict
    /\ active = {}
    /\ ch = [p \in Callers |-> IdleChain]
    /\ fan \in {[NoFan EXCEPT !.phase = "compiled", !.text = text,
                              !.targets = targets, !.length_map = length_map] :
                  text \in FanTexts, targets \in TargetLists,
                  length_map \in LengthMaps}

\* compiled.invoke(init_state, ...) with init_state = {"results": []}: the
\* channel of `results` is declared Annotated[List[Any], _results_reducer],
\* it starts as list() and every write to it, the input included, goes
\* through the reducer
InvokeGraph ==
    /\ fan.phase = "compiled"
    /\ fan' = [fan EXCEPT !.phase = "running",
                          !.results = results_reducer({<<>>}, EmptyListItem)]
    /\ UNCHANGED <<kg, ctx, cache, active, ch, validateVars, mergeVars,
                   sanitizeVars, entityVars, lazy>>

\* node run_<platform> starts: create_platform_chain(platform,
\* tone_map.get(platform), length_map.get(platform), ...)
NodeStart(p) ==
    /\ fan.phase = "running"
    /\ p \in DOMAIN fan.targets
    /\ ch[p].pc = "idle"
    /\ ch' = [ch EXCEPT ![p] =
                [IdleChain EXCEPT
                   !.pc = "platform_exists",
                   !.platform = fan.targets[p],
                   !.tone = NoneStr,
                   !.length_pref = MapGet(fan.length_map, fan.targets[p])]]
    /\ UNCHANGED <<kg, ctx, cache, active, nonPipeVars>>

\* the node returns {"results": result}, which is reduced into the channel
NodeFinish(p) ==
    /\ fan.phase = "running"
    /\ ch[p].pc = "done"
    /\ fan' = [fan EXCEPT
                 !.results = results_reducer({@}, DictItem(ch[p].result))]
    /\ ch' = [ch EXCEPT ![p].pc = "reduced"]
    /\ UNCHANGED <<kg, ctx, cache, active, validateVars, mergeVars,
                   sanitizeVars, entityVars, lazy>>

\* the node raises: nothing catches the exception in node or in
\* run_parallel_rewrites, so it leaves compiled.invoke
NodeRaises(p) ==
    /\ fan.phase = "running"
    /\ ch[p].pc = "failed"
    /\ fan' = [fan EXCEPT !.phase = "raised", !.err = ch[p].err]
    /\ ch' = [ch EXCEPT ![p].pc = "raised"]
    /\ UNCHANGED <<kg, ctx, cache, active, validateVars, mergeVars,
                   sanitizeVars, entityVars, lazy>>

\* every node has finished: return out.get("results", [])
FanReturn ==
    /\ fan.phase = "running"
    /\ \A p \in DOMAIN fan.targets : ch[p].pc = "reduced"
    /\ fan' = [fan EXCEPT !.phase = "returned", !.out = fan.results]
    /\ UNCHANGED <<kg, ctx, cache, active, ch, validateVars, mergeVars,
                   sanitizeVars, entityVars, lazy>>

(***************************************************************************)
(* _get_embeddings and _get_vectorstore (platform_agent.py): the lazily    *)
(* built module globals                                                    *)
(*                                                                         *)
(* An instance is written as a positive number, the n-th object built;    *)
(* None is 0.  A lock holds the thread that owns it, or 0.                 *)
(***************************************************************************)
None == 0

Threads == 1..MaxThreads

IdleThread ==
    [pc |-> "idle", fn |-> "", nested |-> FALSE, embedding_function |-> None,
     recheck_found |-> FALSE, ret |-> None, err |-> ""]

NoLazy ==
    [embeddings |-> None, vectorstore |-> None,
     embeddings_lock |-> 0, vectorstore_lock |-> 0,
     built_embeddings |-> 0, built_vectorstores |-> 0,
     store_ready |-> FALSE,
     th |-> [t \in Threads |-> IdleThread]]

LazyIdle == lazy = NoLazy

\* the process starts: both globals are None, the locks are free; the
\* Chroma directory has been ingested or not
LazyStart ==
    \E ready \in BOOLEAN : lazy = [NoLazy EXCEPT !.store_ready = ready]

nonLazyVars ==
    <<validateVars, mergeVars, sanitizeVars, entityVars, pipeVars, fan>>

\* thread t moves to pc
Goto(t, pc) == lazy' = [lazy EXCEPT !.th[t].pc = pc]

\* a thread calls _get_embeddings() or _get_vectorstore()
CallGetter(t) ==
    /\ lazy.th[t].pc = "idle"
    /\ \E fn \in {"embeddings", "vectorstore"} :
         lazy' = [lazy EXCEPT
                    !.th[t] = [IdleThread EXCEPT
                                 !.fn = fn,
                                 !.pc = IF fn = "embeddings"
                                        THEN "e_check" ELSE "v_check"]]
    /\ UNCHANGED nonLazyVars

\* the second test skipped: whoever gets the lock builds
StillNone_NotRechecked(global) == TRUE

\* the test inside the lock: if _embeddings is None / if _vectorstore is None
StillNone(global) == global = None

\* _get_vectorstore: if _vectorstore is None (outside the lock)
VectorstoreCheck(t) ==
    /\ lazy.th[t].pc = "v_check"
    /\ Goto(t, IF lazy.vectorstore = None THEN "v_lock" ELSE "v_return")
    /\ UNCHANGED nonLazyVars

\* with _vectorstore_lock: the lock is taken when it is free
VectorstoreLock(t) ==
    /\ lazy.th[t].pc = "v_lock"
    /\ lazy.vectorstore_lock = 0
    /\ lazy' = [lazy EXCEPT !.vectorstore_lock = t, !.th[t].pc = "v_check2"]
    /\ UNCHANGED nonLazyVars

\* the double check, then ensure_vectorstore_ready(), which raises
\* RuntimeError when the Chroma directory is missing or empty; leaving the
\* with block releases the lock
VectorstoreRecheck(t) ==
    /\ lazy.th[t].pc = "v_check2"
    /\ IF ~StillNone(lazy.vectorstore)
       THEN lazy' = [lazy EXCEPT !.vectorstore_lock = 0,
                                 !.th[t].recheck_found = TRUE,
                                 !.th[t].pc = "v_return"]
       ELSE IF lazy.store_ready
            THEN lazy' = [lazy EXCEPT !.th[t].nested = TRUE,
                                      !.th[t].pc = "e_check"]
            ELSE lazy' = [lazy EXCEPT !.vectorstore_lock = 0,
                                      !.th[t].err = "RuntimeError",
                                      !.th[t].pc = "raised"]
    /\ UNCHANGED nonLazyVars

\* _get_embeddings: if _embeddings is None (outside the lock)
EmbeddingsCheck(t) ==
    /\ lazy.th[t].pc = "e_check"
    /\ Goto(t, IF lazy.embeddings = None THEN "e_lock" ELSE "e_return")
    /\ UNCHANGED nonLazyVars

\* with _embeddings_lock
EmbeddingsLock(t) ==
    /\ lazy.th[t].pc = "e_lock"
    /\ lazy.embeddings_lock = 0
    /\ lazy' = [lazy EXCEPT !.embeddings_lock = t, !.th[t].pc = "e_check2"]
    /\ UNCHANGED nonLazyVars

\* the double check and _embeddings = HuggingFaceEmbeddings(...); the lock
\* is released on leaving the with block
EmbeddingsRecheck(t) ==
    /\ lazy.th[t].pc = "e_check2"
    /\ IF StillNone(lazy.embeddings)
       THEN lazy' = [lazy EXCEPT
                       !.embeddings = lazy.built_embeddings + 1,
                       !.built_embeddings = @ + 1,
                       !.embeddings_lock = 0,
                       !.th[t].pc = "e_return"]
       ELSE lazy' = [lazy EXCEPT !.embeddings_lock = 0,
                                 !.th[t].recheck_found = TRUE,
                                 !.th[t].pc = "e_return"]
    /\ UNCHANGED nonLazyVars

\* HuggingFaceEmbeddings(...) raises: the exception leaves every with block
\* on its way out, _embeddings stays None
EmbeddingsBuildRaises(t) ==
    /\ lazy.th[t].pc = "e_check2"
    /\ StillNone(lazy.embeddings)
    /\ lazy' = [lazy EXCEPT
                  !.embeddings_lock = 0,
                  !.vectorstore_lock =
                      IF lazy.th[t].nested THEN 0 ELSE @,
                  !.th[t].err = "EmbeddingsError",
                  !.th[t].pc = "raised"]
    /\ UNCHANGED nonLazyVars

\* return _embeddings: to the caller, or to _get_vectorstore as the
\* embedding_function argument
EmbeddingsReturn(t) ==
    /\ lazy.th[t].pc = "e_return"
    /\ IF lazy.th[t].nested
       THEN lazy' = [lazy EXCEPT !.th[t].embedding_function = lazy.embeddings,
                                 !.th[t].pc = "v_new"]
       ELSE lazy' = [lazy EXCEPT !.th[t].ret = lazy.embeddings,
                                 !.th[t].pc = "done"]
    /\ UNCHANGED nonLazyVars

\* _vectorstore = Chroma(...); the lock is released on leaving the with block
VectorstoreBuild(t) ==
    /\ lazy.th[t].pc = "v_new"
    /\ lazy' = [lazy EXCEPT
                  !.vectorstore = lazy.built_vectorstores + 1,
                  !.built_vectorstores = @ + 1,
                  !.vectorstore_lock = 0,
                  !.th[t].pc = "v_return"]
    /\ UNCHANGED nonLazyVars

\* return _vectorstore
VectorstoreReturn(t) ==
    /\ lazy.th[t].pc = "v_return"
    /\ lazy' = [lazy EXCEPT !.th[t].ret = lazy.vectorstore,
                            !.th[t].pc = "done"]
    /\ UNCHANGED nonLazyVars

\* the caller goes on and may call again later; a call that raised is over
GetterDone(t) ==
    /\ lazy.th[t].pc \in {"done", "raised"}
    /\ lazy' = [lazy EXCEPT !.th[t] = IdleThread]
    /\ UNCHANGED nonLazyVars

GetterStep(t) ==
    \/ CallGetter(t)
    \/ VectorstoreCheck(t)
    \/ VectorstoreLock(t)
    \/ VectorstoreRecheck(t)
    \/ EmbeddingsCheck(t)
    \/ EmbeddingsLock(t)
    \/ EmbeddingsRecheck(t)
    \/ EmbeddingsBuildRaises(t)
    \/ EmbeddingsReturn(t)
    \/ VectorstoreBuild(t)
    \/ VectorstoreReturn(t)
    \/ GetterDone(t)

(***************************************************************************)
(* Specifications                                                          *)
(***************************************************************************)
InitValidate ==
    /\ ValidateInput /\ MergeIdle /\ SanitizeIdle /\ EntityIdle /\ PipeIdle /\ FanIdle
    /\ LazyIdle

NextValidate == CallValidate

SpecValidate == InitValidate /\ [][NextValidate]_vars

InitMerge ==
    /\ MergeInput /\ ValidateIdle /\ SanitizeIdle /\ EntityIdle /\ PipeIdle /\ FanIdle
    /\ LazyIdle

NextMerge == CallRecommendedStyles

SpecMerge == InitMerge /\ [][NextMerge]_vars

Init ==
    /\ PipeStart /\ ValidateIdle /\ MergeIdle /\ SanitizeIdle /\ EntityIdle
    /\ FanIdle /\ LazyIdle

Next ==
    \E p \in Callers : CreateChain(p) \/ ChainStep(p) \/ Return(p)

Spec == Init /\ [][Next]_vars

InitBareGraph ==
    /\ BareGraphStart
    /\ ValidateIdle /\ MergeIdle /\ SanitizeIdle /\ EntityIdle /\ FanIdle
    /\ LazyIdle

SpecBareGraph == InitBareGraph /\ [][Next]_vars

InitFanout ==
    /\ FanInput /\ ValidateIdle /\ MergeIdle /\ SanitizeIdle /\ EntityIdle
    /\ LazyIdle

InitSanitize ==
    /\ SanitizeInput /\ ValidateIdle /\ MergeIdle /\ EntityIdle /\ PipeIdle /\ FanIdle
    /\ LazyIdle

NextSanitize == CallSanitize \/ CallSanitizeAgain

SpecSanitize == InitSanitize /\ [][NextSanitize]_vars

InitEntities ==
    /\ EntityInput /\ ValidateIdle /\ MergeIdle /\ SanitizeIdle /\ PipeIdle /\ FanIdle
    /\ LazyIdle

NextEntities == CallExtractEntities

SpecEntities == InitEntities /\ [][NextEntities]_vars

NextFanout ==
    \/ InvokeGraph
    \/ \E p \in Callers :
          NodeStart(p) \/ ChainStep(p) \/ NodeFinish(p) \/ NodeRaises(p)
    \/ FanReturn

SpecFanout == InitFanout /\ [][NextFanout]_vars

InitLazy ==
    /\ LazyStart
    /\ ValidateIdle /\ MergeIdle /\ SanitizeIdle /\ EntityIdle /\ PipeIdle
    /\ FanIdle

NextLazy == \E t \in Threads : GetterStep(t)

SpecLazy == InitLazy /\ [][NextLazy]_vars

(***************************************************************************)
(* Properties of validate_text                                             *)
(***************************************************************************)
\* constraints.get("allow_emojis", True) / constraints.get("cta_required", False)
EmojisAllowed(c) == ~HasKey(c, "allow_emojis") \/ c["allow_emojis"]
CtaRequired(c) == HasKey(c, "cta_required") /\ c["cta_required"]

\* the precondition of C2: short enough, emojis absent or allowed, CTA
\* present or not required
WithinConstraints(text, c) ==
    /\ HasKey(c, "max_length_chars")
    /\ Len(text) <= c["max_length_chars"]
    /\ (~HasEmoji(text) \/ EmojisAllowed(c))
    /\ (HasCTA(text) \/ ~CtaRequired(c))

\* C1: with max_length_chars = N > 0 the repaired text returned by
\* validate_text is at most N code points long, whatever allow_emojis and
\* cta_required are.
C1_RepairedWithinLimit ==
    (/\ vphase = "returned"
     /\ HasKey(vcons, "max_length_chars")
     /\ vcons["max_length_chars"] > 0)
    => Len(vres.repaired_text) <= vcons["max_length_chars"]

\* C2 as stated: a text within the length limit, with emojis absent or
\* allowed and a CTA present or not required, validates ok and comes back
\* unchanged.
C2_WithinConstraintsIsOk ==
    (vphase = "returned" /\ WithinConstraints(vtext, vcons))
    => (vres.ok /\ vres.repaired_text = vtext)

\* C2 amended: a text within the length limit, with emojis absent or
\* allowed, a CTA present or not required, and no profane token, validates
\* ok with an empty issues list and comes back unchanged; a text that only
\* lacks the last condition comes back unchanged with exactly the issue
\* PROFANITY_DETECTED.
C2_CleanWithinConstraintsIsOk ==
    (vphase = "returned" /\ WithinConstraints(vtext, vcons))
    => /\ vres.repaired_text = vtext
       /\ vres.ok = ~HasProfanity(vtext)
       /\ vres.issues = (IF HasProfanity(vtext)
                         THEN <<"PROFANITY_DETECTED">> ELSE <<>>)

\* a text of exactly the limit, holding an allowed emoji and a CTA that is
\* required, was validated ok
C2_Witness ==
    /\ vphase = "returned"
    /\ WithinConstraints(vtext, vcons)
    /\ Len(vtext) = vcons["max_length_chars"]
    /\ HasEmoji(vtext) /\ CtaRequired(vcons) /\ ~HasProfanity(vtext)
    /\ vres.ok

HasIssue(code) == code \in Range(vres.issues)

EmojisForbidden(c) == HasKey(c, "allow_emojis") /\ ~c["allow_emojis"]

\* C14: with allow_emojis false the repaired text holds no character of the
\* emoji range, and EMOJI_NOT_ALLOWED is reported exactly when the working
\* text after the truncation step held such a character.
C14_EmojisStripped ==
    (vphase = "returned" /\ EmojisForbidden(vcons)) =>
        /\ ~HasEmoji(vres.repaired_text)
        /\ HasIssue("EMOJI_NOT_ALLOWED") <=> HasEmoji(AfterLength(vtext, vcons))

\* a truncated text that still held an emoji inside the limit lost it and
\* got the issue
C14_Witness ==
    /\ vphase = "returned" /\ EmojisForbidden(vcons)
    /\ LengthExceeded(vtext, vcons)
    /\ HasEmoji(AfterLength(vtext, vcons))
    /\ HasIssue("EMOJI_NOT_ALLOWED")
    /\ Len(vres.repaired_text) < Len(AfterLength(vtext, vcons))

\* C15: with cta_required true, if the working text after truncation and
\* emoji stripping holds no CTA verb, CTA_MISSING is reported and the
\* repaired text is that working text without its trailing punctuation
\* followed by ". Get yours today."; otherwise CTA_MISSING is absent and the
\* working text is returned as it is.  Either way the repaired text holds a
\* CTA verb.
C15_CtaInjected ==
    (vphase = "returned" /\ CtaRequired(vcons)) =>
        LET working == AfterEmoji(vtext, vcons)
        IN /\ IF HasCTA(working)
              THEN /\ ~HasIssue("CTA_MISSING")
                   /\ vres.repaired_text = working
              ELSE /\ HasIssue("CTA_MISSING")
                   /\ vres.repaired_text
                        = RStripSet(working, Punctuation) \o CTA_SUFFIX
           /\ HasCTA(vres.repaired_text)

\* a working text ending in punctuation, without a CTA verb, got the suffix
C15_Witness ==
    /\ vphase = "returned" /\ CtaRequired(vcons)
    /\ HasIssue("CTA_MISSING")
    /\ AfterEmoji(vtext, vcons) # <<>>
    /\ AfterEmoji(vtext, vcons)[Len(AfterEmoji(vtext, vcons))] = "."
    /\ Len(vres.repaired_text)
         < Len(AfterEmoji(vtext, vcons)) + Len(CTA_SUFFIX)

(***************************************************************************)
(* Properties of get_recommended_styles                                    *)
(***************************************************************************)
\* the example of C3: platform [a,b,c], audience [b,d], intent [d,e]
C3_Input ==
    /\ maud /\ mint
    /\ mstrategy = StrategyOf(<<"a", "b", "c">>, <<"b", "d">>, <<"d", "e">>,
                              TRUE, TRUE)

\* C3 as stated: platform styles [a,b,c], audience styles [b,d] and intent
\* styles [d,e] merge to [e,d,b,a,c].
C3_MergeExampleAsStated ==
    (mphase = "returned" /\ C3_Input)
    => mres = <<"e", "d", "b", "a", "c">>

\* C3 amended: platform styles [a,b,c], audience styles [b,d] and intent
\* styles [d,e] merge to [d,e,b,a,c]: the intent list in its own order,
\* then the audience styles not yet listed, then the platform styles not
\* yet listed.
C3_MergeExample ==
    (mphase = "returned" /\ C3_Input)
    => mres = <<"d", "e", "b", "a", "c">>

\* the example input was merged
C3_Witness == mphase = "returned" /\ C3_Input /\ Len(mres) = 5

\* the source lists the merge used
IntentSource ==
    IF mint /\ HasKey(mstrategy, "intent_required_styles")
    THEN mstrategy["intent_required_styles"] ELSE <<>>
AudienceSource ==
    IF maud /\ HasKey(mstrategy, "audience_preferred_styles")
    THEN mstrategy["audience_preferred_styles"] ELSE <<>>
PlatformSource == PlatformStylesOf(mstrategy)

\* 1 = intent style, 2 = audience style that is no intent style,
\* 3 = platform-only style
TierOf(x) ==
    IF x \in Range(IntentSource) THEN 1
    ELSE IF x \in Range(AudienceSource) THEN 2 ELSE 3

TierSource(t) ==
    IF t = 1 THEN IntentSource ELSE IF t = 2 THEN AudienceSource
    ELSE PlatformSource

FirstIndex(s, x) ==
    CHOOSE k \in DOMAIN s : s[k] = x /\ \A m \in 1..(k - 1) : s[m] # x

NoStyleTwice(s) == \A i, j \in DOMAIN s : i # j => s[i] # s[j]

\* C4: for every combination of platform, audience and intent lists
\* (audience or intent possibly absent, a source list possibly repeating a
\* style) the result has at most 10 entries, holds no style twice, puts
\* every intent style before every other style and every audience style
\* that is no intent style before every platform-only style, and keeps,
\* within each tier, the relative order of that tier's source list.
C4_MergedRanking ==
    mphase = "returned" =>
      /\ Len(mres) <= 10
      /\ NoStyleTwice(mres)
      /\ \A i, j \in DOMAIN mres :
            i < j => TierOf(mres[i]) <= TierOf(mres[j])
      /\ \A i, j \in DOMAIN mres :
            (i < j /\ mres[i] # mres[j] /\ TierOf(mres[i]) = TierOf(mres[j]))
            => FirstIndex(TierSource(TierOf(mres[i])), mres[i])
                 < FirstIndex(TierSource(TierOf(mres[i])), mres[j])

(***************************************************************************)
(* Properties of the per-platform pipeline                                 *)
(***************************************************************************)
Finished(p) == ch[p].pc = "done"

Ran(p, stage) == stage \in Range(ch[p].stages)

\* C5: in the final result record validation.ok is true exactly when
\* validation.issues, with the sanitize-stage PROFANITY_MASKED issues merged
\* in, is empty.
C5_OkReflectsMergedIssues ==
    \A p \in Callers :
        Finished(p) =>
            (ch[p].result.validation.ok
                <=> ch[p].result.validation.issues = <<>>)

\* the strategy the data source yields for a cache key
FromDataSource(key) ==
    get_platform_data_batch(kg, key[1], key[2], key[3], key[4])

\* C6: a pipeline invocation never changes the cached strategy: every cache
\* entry equals the value computed from the data source for its key.
C6_CacheEntriesUnchanged ==
    \A key \in DOMAIN cache : cache[key] = FromDataSource(key)

UnknownPlatform(p) ==
    ch[p].pc # "idle" /\ NameLower(ch[p].platform) \notin DOMAIN kg

\* C7: on a platform absent from the knowledge graph the call fails with
\* the unsupported-platform error and nothing but the existence check has
\* run: no strategy lookup (no cache entry for the platform), no LLM client,
\* no example retrieval, no LLM call, no result record.
C7_UnknownPlatformFailsFast ==
    \A p \in Callers :
        UnknownPlatform(p) =>
            /\ ch[p].pc \in {"platform_exists", "failed"}
            /\ ch[p].pc = "failed" => ch[p].err = "ValueError"
            /\ \A stage \in {"strategy", "length_pref", "styles", "get_llm",
                               "sanitize", "entities", "retrieve", "llm",
                               "parse", "validate"} : ~Ran(p, stage)
            /\ ch[p].result = NoRecord
            /\ ch[p].response = NoResponse
            /\ \A key \in DOMAIN cache : key[1] # NameLower(ch[p].platform)

\* a call on the unknown platform has failed with the ValueError
C7_Witness ==
    \E p \in Callers :
        /\ UnknownPlatform(p)
        /\ ch[p].pc = "failed" /\ ch[p].err = "ValueError"
        /\ ch[p].stages = <<"platform_exists">>

\* C8: the constraints passed to validate_text always hold all three of
\* max_length_chars, allow_emojis and cta_required, also when the knowledge
\* graph holds only some of the three records for the platform.
C8_CompleteConstraintSet ==
    \A p \in Callers :
        Finished(p) => ConstraintKeys \subseteq DOMAIN ch[p].validated_with

\* C9: the parse step never raises, whatever the LLM answered; an answer
\* that is no JSON object of the expected shape is replaced by the raw
\* response text with the fallback explanation, and validation follows.
C9_ParseNeverRaises ==
    \A p \in Callers :
        (ch[p].response # NoResponse /\ ch[p].pc # "parse") =>
            /\ ch[p].err = ""
            /\ ch[p].pc \in {"validate", "done"}
            /\ ch[p].response.kind \in {"not_json", "json_scalar"} =>
                  /\ ch[p].llm_explanation = FallbackExplanation
                  /\ StripSet(ch[p].response.text, Whitespace) # <<>> =>
                        ch[p].rewritten_text
                            = StripSet(ch[p].response.text, Whitespace)

(***************************************************************************)
(* Properties of the fan-out                                               *)
(***************************************************************************)
IsRecordOf(item, platform) ==
    item.kind = "dict" /\ item.record.platform = platform

\* C10: when every platform pipeline succeeds the returned list holds
\* exactly one result record per requested target platform and nothing
\* else, whatever the completion order of the nodes.
C10_OneRecordPerTarget ==
    fan.phase = "returned" =>
        /\ Len(fan.out) = Len(fan.targets)
        /\ \A i \in DOMAIN fan.out : fan.out[i].kind = "dict"
        /\ \A t \in DOMAIN fan.targets :
              Cardinality({i \in DOMAIN fan.out :
                             IsRecordOf(fan.out[i], fan.targets[t])}) = 1

\* run_parallel_rewrites has ended: it returned, or an exception left it
FanEnded == fan.phase \in {"returned", "raised"}

\* C11: an exception raised by one platform's pipeline does not block the
\* collection of the others: when the run has ended, the list it returns
\* holds the record of every platform whose pipeline succeeded.
C11_OthersStillCollected ==
    \A q \in DOMAIN fan.targets :
        (FanEnded /\ ch[q].pc = "reduced") =>
            \E i \in DOMAIN fan.out : IsRecordOf(fan.out[i], fan.targets[q])

(***************************************************************************)
(* Properties of sanitize_text                                             *)
(***************************************************************************)
\* C12: sanitize_text applied to its own sanitized output returns an empty
\* issues list and leaves that text unchanged.
C12_SanitizeIdempotent ==
    sphase = "resanitized" =>
        /\ sres2.issues = <<>>
        /\ sres2.text = sres.text

\* a text with two profane words, masked on the first pass, went through
\* the second pass
C12_Witness ==
    /\ sphase = "resanitized"
    /\ Len(sres.issues) = 2
    /\ sres.text # stext

\* the whitespace-delimited tokens of the input and of the sanitized text
InputTokens == Split(StripSet(stext, Whitespace))
SanitizedTokens == Split(sres.text)

\* C13: every token whose punctuation-stripped lowercase form is in the
\* profanity set (leading or trailing punctuation included) is replaced by
\* its first character followed only by asterisks, with the length of the
\* original token, and the replacement is not recognized as profane.
C13_ProfaneTokenMasked ==
    sphase # "input" =>
        /\ Len(SanitizedTokens) = Len(InputTokens)
        /\ \A i \in DOMAIN InputTokens :
              IsProfaneWord(InputTokens[i]) =>
                  /\ Len(SanitizedTokens[i]) = Len(InputTokens[i])
                  /\ SanitizedTokens[i][1] = InputTokens[i][1]
                  /\ \A k \in 2..Len(SanitizedTokens[i]) :
                        SanitizedTokens[i][k] = "*"
                  /\ ~IsProfaneWord(SanitizedTokens[i])

\* a profane token with punctuation on both sides was masked
C13_Witness ==
    /\ sphase = "sanitized"
    /\ \E i \in DOMAIN InputTokens :
          /\ IsProfaneWord(InputTokens[i])
          /\ InputTokens[i][1] \in Punctuation
          /\ InputTokens[i][Len(InputTokens[i])] \in Punctuation
          /\ SanitizedTokens[i] # InputTokens[i]

(***************************************************************************)
(* Properties of extract_entities                                          *)
(***************************************************************************)
EntityFields == {"cta", "discount", "product"}

\* an optional text in lower case
LowerOpt(o) == {Lower(t) : t \in o}

\* C16: all three detections are case-insensitive: a text yields, up to
\* case, the cta, discount and product that its lower-case form yields.
C16_CaseInsensitive ==
    ephase = "returned" =>
        \A f \in EntityFields :
            LowerOpt(eres[f]) = extract_entities(Lower(etext))[f]

\* a whole-word CTA verb of n characters at position i, in any case
CtaOccurrence(s, i, n) ==
    \E w \in CTA_VERBS : Len(w) = n /\ CtaMatchAt(s, i, w)

\* a 1-2 digit percentage, "half off" or "bogo" of n characters at position
\* i, in any case, with no word character right before or right after it
DiscountOccurrence(s, i, n) ==
    /\ i + n - 1 <= Len(s)
    /\ \/ /\ n \in {2, 3}
          /\ \A k \in i..(i + n - 2) : s[k] \in Digits
          /\ s[i + n - 1] = "%"
       \/ n = Len(HALF_OFF) /\ LiteralAt(s, i, HALF_OFF)
       \/ n = Len(BOGO) /\ LiteralAt(s, i, BOGO)
    /\ (i = 1 \/ ~IsWordChar(s[i - 1]))
    /\ (i + n - 1 = Len(s) \/ ~IsWordChar(s[i + n]))

\* field is the leftmost occurrence of the pattern Occ in s, None if none
IsLeftmost(field, s, Occ(_, _, _)) ==
    IF \A i \in DOMAIN s, n \in 1..Len(s) : ~Occ(s, i, n)
    THEN field = NoText
    ELSE \E i \in DOMAIN s, n \in 1..Len(s) :
            /\ Occ(s, i, n)
            /\ \A j \in 1..(i - 1), m \in 1..Len(s) : ~Occ(s, j, m)
            /\ field = {SubSeq(s, i, i + n - 1)}

\* C17: cta is the leftmost whole-word occurrence of one of the eight
\* verbs, discount the leftmost occurrence of a 1-2 digit percentage,
\* "half off" or "bogo" not adjacent to a word character; each is None
\* exactly when the text holds no such occurrence, whatever the other
\* fields are.
C17_LeftmostMatches ==
    ephase = "returned" =>
        /\ IsLeftmost(eres.cta, etext, CtaOccurrence)
        /\ IsLeftmost(eres.discount, etext, DiscountOccurrence)

\* a percentage at the start is rejected because a word character follows
\* it, and a later occurrence is returned as the discount
C17_Witness ==
    /\ ephase = "returned"
    /\ DiscountLenAt(etext, 1) > 0
    /\ ~DiscountMatchAt(etext, 1)
    /\ eres.discount # NoText
    /\ eres.cta = NoText

(***************************************************************************)
(* Properties of the issue codes                                           *)
(***************************************************************************)
\* the codes of validate_text in the order its checks are applied
ISSUE_ORDER ==
    <<"MAX_LENGTH_EXCEEDED", "EMOJI_NOT_ALLOWED", "CTA_MISSING",
      "PROFANITY_DETECTED">>

\* a subsequence of ISSUE_ORDER, each code at most once
InIssueOrder(issues) ==
    /\ \A i \in DOMAIN issues : issues[i] \in Range(ISSUE_ORDER)
    /\ \A i, j \in DOMAIN issues :
          i < j => FirstIndex(ISSUE_ORDER, issues[i])
                     < FirstIndex(ISSUE_ORDER, issues[j])

\* validate codes in order, then nothing but PROFANITY_MASKED
MaskedIssuesLast(issues) ==
    \E k \in 0..Len(issues) :
        /\ InIssueOrder(SubSeq(issues, 1, k))
        /\ \A m \in (k + 1)..Len(issues) : issues[m] = "PROFANITY_MASKED"

\* C18: the issues of validate_text are a subsequence of
\* [MAX_LENGTH_EXCEEDED, EMOJI_NOT_ALLOWED, CTA_MISSING, PROFANITY_DETECTED]
\* with each code at most once, and in the final pipeline record every
\* PROFANITY_MASKED entry of the sanitize stage comes after all of them.
C18_IssueOrder ==
    /\ vphase = "returned" => InIssueOrder(vres.issues)
    /\ \A p \in Callers :
          Finished(p) =>
              /\ MaskedIssuesLast(ch[p].result.validation.issues)
              /\ InIssueOrder(validate_text(ch[p].rewritten_text,
                                            ch[p].validated_with).issues)

\* a final record with three validate codes followed by a sanitize issue
C18_Witness ==
    \E p \in Callers :
        /\ Finished(p)
        /\ Len(ch[p].result.validation.issues) = 4
        /\ ch[p].result.validation.issues[1] = "MAX_LENGTH_EXCEEDED"
        /\ ch[p].result.validation.issues[4] = "PROFANITY_MASKED"

(***************************************************************************)
(* Properties of the order of the checks of validate_text                  *)
(***************************************************************************)
\* the text is cut at max_length_chars
Truncated == vphase = "returned" /\ LengthExceeded(vtext, vcons)

\* every emoji of the input lies beyond the truncation point
EmojiOnlyBeyondCut ==
    /\ Truncated /\ EmojisForbidden(vcons)
    /\ HasEmoji(vtext)
    /\ \A i \in DOMAIN vtext :
          IsEmoji(vtext[i]) => i > vcons["max_length_chars"]

\* the input holds CTA verbs, and each of them ends beyond the truncation
\* point (it lies beyond the cut or is cut in the middle)
CtaOnlyBeyondCut ==
    /\ Truncated /\ CtaRequired(vcons)
    /\ HasCTA(vtext)
    /\ \A i \in DOMAIN vtext, n \in 1..Len(vtext) :
          CtaOccurrence(vtext, i, n) => i + n - 1 > vcons["max_length_chars"]

\* the text after the length step holds no CTA verb, but does once its
\* emoji are removed
CtaOnlyAfterEmojiRemoval ==
    /\ vphase = "returned"
    /\ CtaRequired(vcons) /\ EmojisForbidden(vcons)
    /\ ~HasCTA(AfterLength(vtext, vcons))
    /\ HasCTA(RemoveEmoji(AfterLength(vtext, vcons)))

\* C19 as stated: an emoji only beyond the truncation point gives no
\* EMOJI_NOT_ALLOWED, a CTA verb only beyond the truncation point (or cut
\* in the middle) gives CTA_MISSING, and a CTA verb that appears only once
\* the emoji are removed suppresses CTA_MISSING.
C19_SequentialAsStated ==
    /\ EmojiOnlyBeyondCut => ~HasIssue("EMOJI_NOT_ALLOWED")
    /\ CtaOnlyBeyondCut => HasIssue("CTA_MISSING")
    /\ CtaOnlyAfterEmojiRemoval => ~HasIssue("CTA_MISSING")

\* C19 amended: an emoji only beyond the truncation point gives no
\* EMOJI_NOT_ALLOWED; a CTA verb only beyond the truncation point (or cut
\* in the middle) gives CTA_MISSING unless the kept text, once truncated and
\* stripped of emoji, itself forms a whole-word CTA verb, and then it does
\* not; a CTA verb that appears only once the emoji are removed suppresses
\* CTA_MISSING.
C19_Sequential ==
    /\ EmojiOnlyBeyondCut => ~HasIssue("EMOJI_NOT_ALLOWED")
    /\ CtaOnlyBeyondCut =>
          (HasIssue("CTA_MISSING") <=> ~HasCTA(AfterEmoji(vtext, vcons)))
    /\ CtaOnlyAfterEmojiRemoval => ~HasIssue("CTA_MISSING")

\* the only CTA verb of the input was cut in the middle and CTA_MISSING was
\* reported
C19_Witness ==
    /\ CtaOnlyBeyondCut
    /\ \E i \in DOMAIN vtext, n \in 1..Len(vtext) :
          /\ CtaOccurrence(vtext, i, n)
          /\ i <= vcons["max_length_chars"]
    /\ HasIssue("CTA_MISSING")

\* C20: PROFANITY_DETECTED is reported exactly when the final repaired
\* text (after truncation, emoji stripping and CTA injection) holds a
\* whitespace-delimited token whose punctuation-stripped lowercase form is
\* in the profanity set, and the scan leaves the text as the CTA step
\* left it.
C20_ProfanityOnFinalText ==
    vphase = "returned" =>
        /\ HasIssue("PROFANITY_DETECTED") <=> HasProfanity(vres.repaired_text)
        /\ vres.repaired_text = AfterCta(vtext, vcons)

\* the input holds no profane token; one arose from removing an emoji
\* inside a word, was reported and was left in the text
C20_Witness ==
    /\ vphase = "returned"
    /\ ~HasProfanity(vtext)
    /\ HasIssue("EMOJI_NOT_ALLOWED")
    /\ HasIssue("PROFANITY_DETECTED")
    /\ HasProfanity(vres.repaired_text)

(***************************************************************************)
(* Truncation                                                              *)
(***************************************************************************)
\* no repair other than the truncation can apply
OnlyLengthApplies == EmojisAllowed(vcons) /\ ~CtaRequired(vcons)

\* text[:N].rstrip() for N > 0
StrippedPrefix(text, n) ==
    RStripSet(SubSeq(text, 1, IF n < Len(text) THEN n ELSE Len(text)),
              Whitespace)

\* C21: for a limit N > 0, a text longer than N gets MAX_LENGTH_EXCEEDED and,
\* when emojis are allowed and no CTA is required, the repaired text is
\* exactly the first N characters with trailing whitespace stripped (a raw
\* character cut); a text of at most N characters does not get the code and,
\* under the same constraints, is returned as it is.
C21_RawCharacterCut ==
    (vphase = "returned" /\ HasKey(vcons, "max_length_chars")
        /\ vcons["max_length_chars"] > 0) =>
        IF Len(vtext) > vcons["max_length_chars"]
        THEN /\ HasIssue("MAX_LENGTH_EXCEEDED")
             /\ OnlyLengthApplies =>
                   vres.repaired_text =
                       StrippedPrefix(vtext, vcons["max_length_chars"])
        ELSE /\ ~HasIssue("MAX_LENGTH_EXCEEDED")
             /\ OnlyLengthApplies => vres.repaired_text = vtext

\* a cut inside a word whose prefix ends in whitespace: the repaired text is
\* shorter than N
C21_Witness ==
    /\ vphase = "returned"
    /\ HasKey(vcons, "max_length_chars")
    /\ OnlyLengthApplies
    /\ Len(vtext) > vcons["max_length_chars"] + 1
    /\ vtext[vcons["max_length_chars"]] \in Whitespace
    /\ vtext[vcons["max_length_chars"] + 1] \notin Whitespace
    /\ HasIssue("MAX_LENGTH_EXCEEDED")
    /\ Len(vres.repaired_text) < vcons["max_length_chars"]
    /\ vres.repaired_text # <<>>

(***************************************************************************)
(* sanitize_text: issues and tokens                                        *)
(***************************************************************************)
\* the positions of the tokens that sanitize_text changed
MaskedPositions ==
    {i \in DOMAIN InputTokens : SanitizedTokens[i] # InputTokens[i]}

\* C22: for every text, the empty and the whitespace-only one included,
\* sanitize_text returns; its issues hold one PROFANITY_MASKED per masked
\* token (not deduplicated), the number and order of the tokens are kept,
\* tokens that are not profane are unchanged, and the output is the tokens
\* joined by single spaces.
C22_OneIssuePerMaskedToken ==
    sphase # "input" =>
        /\ Len(SanitizedTokens) = Len(InputTokens)
        /\ Len(sres.issues) = Cardinality(MaskedPositions)
        /\ \A k \in DOMAIN sres.issues : sres.issues[k] = "PROFANITY_MASKED"
        /\ \A i \in DOMAIN InputTokens :
              (i \in MaskedPositions) <=> IsProfaneWord(InputTokens[i])
        /\ sres.text = JoinSpace(SanitizedTokens)
        /\ InputTokens = <<>> => (sres.text = <<>> /\ sres.issues = <<>>)

\* the same profane word twice, separated by a tab: two issue entries and
\* a single space in the output
C22_Witness ==
    /\ sphase = "sanitized"
    /\ Len(InputTokens) = 2
    /\ InputTokens[1] = InputTokens[2]
    /\ "\t" \in Range(stext)
    /\ sres.issues = <<"PROFANITY_MASKED", "PROFANITY_MASKED">>
    /\ Len(sres.text) = Len(InputTokens[1]) * 2 + 1

(***************************************************************************)
(* The order of the stages                                                 *)
(***************************************************************************)
\* the steps of create_platform_chain, then the stages of one invocation of
\* the chain: prepare_context (sanitize, entities, retrieve and the prompt
\* context), the LLM, parse_llm_response, validate_and_finalize (validate,
\* merge of the sanitize issues, the record)
STAGE_ORDER ==
    <<"platform_exists", "strategy", "length_pref", "styles", "get_llm",
      "sanitize", "entities", "retrieve", "llm", "parse", "validate">>

IsPrefix(s, t) == Len(s) <= Len(t) /\ s = SubSeq(t, 1, Len(s))

\* how often a stage has run in the current invocation of p
TimesRun(p, stage) ==
    Cardinality({i \in DOMAIN ch[p].stages : ch[p].stages[i] = stage})

\* C23: the stages of one invocation run in the fixed linear order, each at
\* most once and none after a later one; the LLM is invoked at most once,
\* validation runs only after the response was parsed, and a record is
\* emitted only after every stage has run once.
C23_LinearStages ==
    \A p \in Callers :
        /\ IsPrefix(ch[p].stages, STAGE_ORDER)
        /\ TimesRun(p, "llm") <= 1
        /\ Ran(p, "validate") => Ran(p, "parse")
        /\ ch[p].result # NoRecord => ch[p].stages = STAGE_ORDER

\* an invocation has emitted its record after the LLM answered with no
\* usable text (the input text is forwarded, the LLM is not asked again)
C23_Witness ==
    \E p \in Callers :
        /\ ch[p].pc = "done"
        /\ ch[p].stages = STAGE_ORDER
        /\ StripSet(LlmOutputText(ch[p].response), Whitespace) = <<>>
        /\ ch[p].result.rewritten_text # <<>>

(***************************************************************************)
(* Errors of retrieval and of the LLM                                      *)
(***************************************************************************)
\* the stage at which an error of the outside world is raised
RaisingStage(error) == IF error = "RetrievalError" THEN "retrieve" ELSE "llm"

\* the stages up to and including the given one
StagesThrough(stage) ==
    SubSeq(STAGE_ORDER, 1,
           CHOOSE i \in DOMAIN STAGE_ORDER : STAGE_ORDER[i] = stage)

\* C24: when example retrieval or the LLM call raises, the invocation ends
\* with that error: the raising stage was tried once and is the last stage
\* that ran, no response is parsed, nothing is validated and no result
\* record exists for the platform.
C24_ErrorsPropagate ==
    \A p \in Callers :
        ch[p].err \in {"RetrievalError", "LLMError"} =>
            /\ ch[p].pc = "failed"
            /\ ch[p].stages = StagesThrough(RaisingStage(ch[p].err))
            /\ TimesRun(p, RaisingStage(ch[p].err)) = 1
            /\ ch[p].response = NoResponse
            /\ ch[p].validated_with = EmptyDict
            /\ ch[p].result = NoRecord

\* the LLM call raised after the examples had been retrieved
C24_Witness ==
    \E p \in Callers :
        /\ ch[p].pc = "failed"
        /\ ch[p].err = "LLMError"
        /\ ch[p].examples # <<>>
        /\ ch[p].result = NoRecord

(***************************************************************************)
(* Independence of the platform nodes                                      *)
(***************************************************************************)
\* the cache key of the node of target p and its length preference
NodeKey(p) == CacheKey(fan.targets[p], ctx[1], ctx[2], ctx[3])
NodeLengthPref(p) == MapGet(fan.length_map, fan.targets[p])

SetMin(S) == CHOOSE m \in S : \A n \in S : m <= n

\* the constraints node p validates against when the nodes run one after
\* the other in the order of target_platforms, starting from an empty cache
SequentialConstraints(p) ==
    LET base == FromDataSource(NodeKey(p))["constraints"]
        prefs == {IntOf(NodeLengthPref(q)) :
                    q \in {r \in 1..p : /\ NodeKey(r) = NodeKey(p)
                                        /\ TruthyInt(NodeLengthPref(r))}}
    IN IF HasKey(base, "max_length_chars")
       THEN [base EXCEPT !["max_length_chars"] = SetMin(prefs \cup {@})]
       ELSE base

SourceLimit(p) == FromDataSource(ch[p].key)["constraints"]["max_length_chars"]

SourceHasLimit(p) ==
    HasKey(FromDataSource(ch[p].key)["constraints"], "max_length_chars")

\* C26: whatever invocations ran before on the same platform, audience,
\* intent and category, an invocation without length_pref (None, or 0,
\* which the code takes as absent) validates against the data source's
\* max_length_chars, and one with length_pref L against min(L, that value).
C26_LimitFromOwnArguments ==
    \A p \in Callers :
        (ch[p].pc = "done" /\ SourceHasLimit(p)) =>
            /\ HasKey(ch[p].validated_with, "max_length_chars")
            /\ ch[p].validated_with["max_length_chars"] =
                  IF TruthyInt(ch[p].length_pref)
                  THEN Min(IntOf(ch[p].length_pref), SourceLimit(p))
                  ELSE SourceLimit(p)

(***************************************************************************)
(* What leaves prepare_context                                             *)
(***************************************************************************)
\* C27: the text entities are extracted from, the query of the example
\* retrieval and the input_text of the prompt handed to the LLM are the
\* sanitized text of the raw input, which holds no whitespace-delimited
\* token whose punctuation-stripped lowercase form is in the profanity set.
\* (Stated where the values are handed over: entities extracted, prompt
\* built and the LLM about to be invoked; they are not written again.)
C27_DownstreamTextSanitized ==
    \A p \in Callers :
        ch[p].pc \in {"retrieve", "llm"} =>
            LET sanitized == sanitize_text(ch[p].text).text
            IN /\ ~HasProfanity(sanitized)
               /\ ch[p].entities_text = sanitized
               /\ ch[p].pc = "llm" =>
                     /\ ch[p].query = sanitized
                     /\ ch[p].input_text = sanitized

\* a raw text with two profane tokens is handed to the LLM masked
C27_Witness ==
    \E p \in Callers :
        /\ ch[p].pc = "llm"
        /\ HasProfanity(ch[p].text)
        /\ Len(ch[p].sanitize_issues) = 2
        /\ ch[p].input_text # ch[p].text
        /\ ~HasProfanity(ch[p].input_text)

\* C28: for every integer length_pref, zero and negative values included,
\* the max_length_chars validation uses is greater than 0 and not larger
\* than the platform's own limit.
C28_LimitStaysPositive ==
    \A p \in Callers :
        (/\ ch[p].pc = "done"
         /\ ch[p].length_pref # NoInt
         /\ HasKey(ch[p].validated_with, "max_length_chars")) =>
            /\ ch[p].validated_with["max_length_chars"] > 0
            /\ ch[p].validated_with["max_length_chars"] <= SourceLimit(p)

(***************************************************************************)
(* The tone                                                                *)
(***************************************************************************)
\* the platform's preferred styles as the strategy of invocation p has them
PreferredStyles(p) ==
    IF HasKey(cache[ch[p].key], "preferred_styles")
    THEN cache[ch[p].key]["preferred_styles"]
    ELSE <<>>

\* the first style of the highest tier that has one: the intent's required
\* styles, then the audience's preferred styles, then the platform's
FirstByTier(p) ==
    LET strategy == cache[CacheKey(ch[p].platform, ctx[1], ctx[2], NoneStr)]
    IN IF TruthyStr(ctx[2]) /\ HasKey(strategy, "intent_required_styles")
       THEN strategy["intent_required_styles"][1]
       ELSE IF TruthyStr(ctx[1])
               /\ HasKey(strategy, "audience_preferred_styles")
            THEN strategy["audience_preferred_styles"][1]
       ELSE strategy["preferred_styles"][1]

\* C29: the tone is the caller's override when that is a non-empty string;
\* otherwise the first of the merged recommended styles (intent, then
\* audience, then platform); otherwise the platform's first preferred
\* style; otherwise the literal casual.  It is never undefined.
C29_TonePriority ==
    \A p \in Callers :
        Ran(p, "styles") =>
            /\ ch[p].final_tone \notin {"", NoneStr}
            /\ ch[p].recommended_styles # <<>> =>
                  ch[p].recommended_styles[1] = FirstByTier(p)
            /\ ch[p].final_tone =
                  IF ch[p].tone \notin {"", NoneStr} THEN ch[p].tone
                  ELSE IF ch[p].recommended_styles # <<>>
                       THEN ch[p].recommended_styles[1]
                  ELSE IF PreferredStyles(p) # <<>>
                       THEN PreferredStyles(p)[1]
                  ELSE "casual"

\* an empty override on a platform without any style: the tone is casual
C29_Witness ==
    \E p \in Callers :
        /\ Ran(p, "styles")
        /\ ch[p].tone = ""
        /\ ch[p].recommended_styles = <<>>
        /\ ch[p].final_tone = "casual"

(***************************************************************************)
(* The lazily built globals                                                *)
(***************************************************************************)
\* the global a getter returns
GlobalOf(fn) == IF fn = "embeddings" THEN lazy.embeddings ELSE lazy.vectorstore

\* C30: under every interleaving of the callers of _get_embeddings and
\* _get_vectorstore, each of the two objects is built at most once in the
\* process, every caller that returns gets that one instance, and no
\* caller gets None (nor does Chroma get None as its embedding function).
C30_BuiltOnce ==
    /\ lazy.built_embeddings <= 1
    /\ lazy.built_vectorstores <= 1
    /\ \A t \in Threads :
          /\ lazy.th[t].pc = "done" =>
                /\ lazy.th[t].ret # None
                /\ lazy.th[t].ret = GlobalOf(lazy.th[t].fn)
                /\ lazy.th[t].ret = 1
          /\ lazy.th[t].pc = "v_new" => lazy.th[t].embedding_function = 1

\* two callers of _get_vectorstore both saw None outside the lock; the
\* second found the store built once it held the lock, and both returned
\* the same instance
C30_Witness ==
    \E t, u \in Threads :
        /\ t # u
        /\ lazy.th[t].pc = "done" /\ lazy.th[t].fn = "vectorstore"
        /\ lazy.th[u].pc = "done" /\ lazy.th[u].fn = "vectorstore"
        /\ ~lazy.th[t].recheck_found
        /\ lazy.th[u].recheck_found
        /\ lazy.th[t].ret = lazy.th[u].ret
        /\ lazy.built_vectorstores = 1

====
